---------------------------- MODULE Spec2Model ----------------------------
(***************************************************************************)
(* Model of fonty (google-font-fetcher): main.rs and font_manifest.rs.     *)
(*                                                                         *)
(* Texts (font names, file names, urls, file contents, response bodies)    *)
(* are sequences of characters.  A character is a one-letter string; the   *)
(* fixed JSON fragments of the catalog's payload are atoms, each written   *)
(* as the text it stands for.  Every atom contains a double quote and a    *)
(* letter that is no character of the alphabet, so a text has one reading  *)
(* as a sequence of characters and atoms.                                  *)
(*                                                                         *)
(* The run modelled is `fonty fetch <names>`; the help text (main.rs:17-39)*)
(* and what is printed are left out.  exit_codes.rs is not at hand: an     *)
(* exit code is the name of its constant.                                  *)
(***************************************************************************)
EXTENDS Integers, Sequences, FiniteSets, TLC

(***************************************************************************)
(* Bounds of the model.                                                    *)
(***************************************************************************)
\* Largest number of font names on the command line.
MaxArgs == 2
\* Largest number of inline files in a manifest.
MaxFiles == 2
\* Largest number of file references in a manifest.
MaxRefs == 2

(***************************************************************************)
(* Characters and atoms.                                                   *)
(***************************************************************************)
LF == "\n"
\* Characters that may stand inside a JSON string unescaped.
StrChars == {"a", "b", "c", "x", "y", "u", "v", "/", ",", ")", "]", "}", "'"}
Chars == StrChars \cup {LF}
WOPEN == "{\"zipName\":\"z\",\"manifest\":{\"files\":["
WREFS == "],\"fileRefs\":["
FNAME == "{\"filename\":\""
FCONT == "\",\"contents\":\""
FURL == "\",\"url\":\""
QEND == "\""

\* The anti-hijacking prefix, font_manifest.rs:66.
HijackPrefix == <<")", "]", "}", "'", LF>>

\* Option::None of a record, and of a text (no text holds this atom).
None == [none |-> TRUE]
NoText == <<"(none)">>

(***************************************************************************)
(* str::replace and str::join                                              *)
(***************************************************************************)
StartsWithAt(t, k, pat) ==
    /\ k + Len(pat) - 1 <= Len(t)
    /\ \A j \in 1..Len(pat) : t[k + j - 1] = pat[j]

RECURSIVE ReplaceFrom(_, _, _, _)
\* str::replace: every non-overlapping match of pat, found left to right, is
\* replaced by with.
ReplaceFrom(t, k, pat, with) ==
    IF k > Len(t) THEN <<>>
    ELSE IF Len(pat) > 0 /\ StartsWithAt(t, k, pat)
         THEN with \o ReplaceFrom(t, k + Len(pat), pat, with)
         ELSE <<t[k]>> \o ReplaceFrom(t, k + 1, pat, with)

StrReplace(t, pat, with) == ReplaceFrom(t, 1, pat, with)

RECURSIVE Join(_, _)
Join(ss, sep) ==
    IF Len(ss) = 0 THEN <<>>
    ELSE IF Len(ss) = 1 THEN ss[1]
    ELSE ss[1] \o sep \o Join(Tail(ss), sep)

(***************************************************************************)
(* serde_json::from_str::<FontManifestWrapper>, on the texts of the        *)
(* alphabet, as the automaton that reads the text one character or atom at *)
(* a time.  Outside strings a line feed is white space; inside a string it *)
(* is a control character and an error.  An object needs each field of its *)
(* struct exactly once; a field the struct does not have is ignored.       *)
(***************************************************************************)
ParseError == [ok |-> FALSE]

\* Before the first character.  mode is what the parser expects next, sect the
\* array it is in, key the field whose string is being read, str the string
\* read so far, name/contents/url the current object's values, files and refs
\* the objects finished.
ParseStart ==
    [mode |-> "start", sect |-> "files", key |-> "", str |-> <<>>,
     name |-> <<>>, contents |-> <<>>, url |-> <<>>,
     files |-> <<>>, refs |-> <<>>]

Failed(s) == [s EXCEPT !.mode = "error"]

\* The string being read ends: its value goes to its key.
CloseStr(s) ==
    IF s.key = "filename" THEN [s EXCEPT !.name = s.str, !.str = <<>>]
    ELSE IF s.key = "contents"
         THEN [s EXCEPT !.contents = Append(@, s.str), !.str = <<>>]
    ELSE [s EXCEPT !.url = Append(@, s.str), !.str = <<>>]

\* The closing brace of an object: a ManifestFile needs one "contents", a
\* ManifestFileRef one "url".
CloseObject(s) ==
    IF s.sect = "files"
    THEN IF Len(s.contents) # 1 THEN Failed(s)
         ELSE [s EXCEPT !.mode = "after_entry",
                        !.files = Append(@, [filename |-> s.name,
                                             contents |-> s.contents[1]]),
                        !.contents = <<>>, !.url = <<>>, !.name = <<>>]
    ELSE IF Len(s.url) # 1 THEN Failed(s)
         ELSE [s EXCEPT !.mode = "after_entry",
                        !.refs = Append(@, [filename |-> s.name,
                                            url |-> s.url[1]]),
                        !.contents = <<>>, !.url = <<>>, !.name = <<>>]

\* The atom or character that closes the array of the section.
Closer(sect) == IF sect = "files" THEN WREFS ELSE "]"

\* The array of the section ends.
CloseArray(s) ==
    IF s.sect = "files" THEN [s EXCEPT !.sect = "refs", !.mode = "elems"]
    ELSE [s EXCEPT !.mode = "close1"]

\* One step of the parser, on the character or atom c.
ParseStep(s, c) ==
    IF s.mode = "string"
    THEN IF c \in StrChars THEN [s EXCEPT !.str = Append(@, c)]
         ELSE IF c = FCONT THEN [CloseStr(s) EXCEPT !.key = "contents"]
         ELSE IF c = FURL THEN [CloseStr(s) EXCEPT !.key = "url"]
         ELSE IF c = QEND THEN [CloseStr(s) EXCEPT !.mode = "objclose"]
         ELSE Failed(s)
    ELSE IF c = LF THEN s
    ELSE IF s.mode = "start"
         THEN IF c = WOPEN THEN [s EXCEPT !.mode = "elems"] ELSE Failed(s)
    ELSE IF s.mode = "elems"
         THEN IF c = FNAME THEN [s EXCEPT !.mode = "string", !.key = "filename"]
              ELSE IF c = Closer(s.sect) THEN CloseArray(s)
              ELSE Failed(s)
    ELSE IF s.mode = "objclose"
         THEN IF c = "}" THEN CloseObject(s) ELSE Failed(s)
    ELSE IF s.mode = "after_entry"
         THEN IF c = "," THEN [s EXCEPT !.mode = "need_entry"]
              ELSE IF c = Closer(s.sect) THEN CloseArray(s)
              ELSE Failed(s)
    ELSE IF s.mode = "need_entry"
         THEN IF c = FNAME THEN [s EXCEPT !.mode = "string", !.key = "filename"]
              ELSE Failed(s)
    ELSE IF s.mode = "close1"
         THEN IF c = "}" THEN [s EXCEPT !.mode = "close2"] ELSE Failed(s)
    ELSE IF s.mode = "close2"
         THEN IF c = "}" THEN [s EXCEPT !.mode = "end"] ELSE Failed(s)
    ELSE Failed(s)

RECURSIVE ParseFrom(_, _, _)
\* The parser's state after the text from position k on.  (The next state is
\* drawn from a one-element set so that it is a value when it is passed on.)
ParseFrom(t, k, s) ==
    IF k > Len(t) THEN s
    ELSE CHOOSE r \in {ParseFrom(t, k + 1, s2) : s2 \in {ParseStep(s, t[k])}} : TRUE

\* serde_json::from_str, font_manifest.rs:69; the result's manifest field.
ParseJson(t) ==
    CHOOSE r \in {IF s.mode = "end"
                  THEN [ok |-> TRUE,
                        manifest |-> [files |-> s.files, file_refs |-> s.refs]]
                  ELSE ParseError : s \in {ParseFrom(t, 1, ParseStart)}} : TRUE

(***************************************************************************)
(* What the catalog sends: the JSON text of a manifest.                    *)
(***************************************************************************)
RECURSIVE JsonFiles(_)
JsonFiles(fs) ==
    IF Len(fs) = 0 THEN <<>>
    ELSE <<FNAME>> \o fs[1].filename \o <<FCONT>> \o fs[1].contents \o <<QEND, "}">>
         \o (IF Len(fs) > 1 THEN <<",">> ELSE <<>>) \o JsonFiles(Tail(fs))

RECURSIVE JsonRefs(_)
JsonRefs(rs) ==
    IF Len(rs) = 0 THEN <<>>
    ELSE <<FNAME>> \o rs[1].filename \o <<FURL>> \o rs[1].url \o <<QEND, "}">>
         \o (IF Len(rs) > 1 THEN <<",">> ELSE <<>>) \o JsonRefs(Tail(rs))

JsonOf(m) ==
    <<WOPEN>> \o JsonFiles(m.files) \o <<WREFS>> \o JsonRefs(m.file_refs)
    \o <<"]", "}", "}">>

(***************************************************************************)
(* std::path::Path on Unix.  A path is whether it starts at the root, and  *)
(* its components: the texts between slashes, the empty ones dropped (a    *)
(* doubled or a trailing slash adds no component).  The alphabet has no    *)
(* "." and no ".." component.                                              *)
(***************************************************************************)
RECURSIVE SplitFrom(_, _, _)
SplitFrom(raw, k, cur) ==
    IF k > Len(raw) THEN (IF cur = <<>> THEN <<>> ELSE <<cur>>)
    ELSE IF raw[k] = "/"
         THEN (IF cur = <<>> THEN <<>> ELSE <<cur>>) \o SplitFrom(raw, k + 1, <<>>)
         ELSE SplitFrom(raw, k + 1, Append(cur, raw[k]))

\* Path::new(raw)
PathNew(raw) ==
    [root |-> (Len(raw) > 0 /\ raw[1] = "/"), comps |-> SplitFrom(raw, 1, <<>>)]

Front(s) == SubSeq(s, 1, Len(s) - 1)

\* Path::parent: the path without its last component; None for the root and
\* for the empty path.
PathParent(p) ==
    IF p.comps = <<>> THEN None
    ELSE [root |-> p.root, comps |-> Front(p.comps)]

TrailingSlash(raw) == Len(raw) > 0 /\ raw[Len(raw)] = "/"

(***************************************************************************)
(* The disk: the directories that exist and the content of every regular   *)
(* file, both keyed by the components of the absolute path.                *)
(***************************************************************************)
EmptyDisk == [dirs |-> {<<>>}, files |-> <<>>]

IsFile(d, c) == c \in DOMAIN d.files

Prefixes(c) == {SubSeq(c, 1, k) : k \in 0..Len(c)}

PutFile(d, c, content) ==
    [d EXCEPT !.files = [q \in DOMAIN d.files \cup {c} |->
                            IF q = c THEN content ELSE d.files[q]]]

\* std::fs::create_dir_all(p): what it may return and leave on the disk.  It
\* succeeds, with every directory down to p in place, unless a component of p
\* is a regular file; a mkdir may also be refused (permissions, a full or
\* read-only disk), leaving the directories made before it.
CreateDirAllOutcomes(d, p) ==
    LET blocked == \E q \in Prefixes(p.comps) : IsFile(d, q)
        okay == IF blocked THEN {}
                ELSE {[ok |-> TRUE,
                       disk |-> [d EXCEPT !.dirs = @ \cup Prefixes(p.comps)]]}
        refused == IF blocked THEN {[ok |-> FALSE, disk |-> d]}
                   ELSE {[ok |-> FALSE,
                          disk |-> [d EXCEPT !.dirs = @ \cup Prefixes(q)]] :
                           q \in {r \in Prefixes(p.comps) :
                                    r # p.comps /\ p.comps \notin d.dirs}}
    IN  okay \cup refused

\* Mutant: an existing file is opened as it is, not truncated.
FileCreateOutcomes_NoTruncate(d, raw) ==
    LET p == [root |-> (Len(raw) > 0 /\ raw[1] = "/"),
              comps |-> SplitFrom(raw, 1, <<>>)]
        cannot == \/ TrailingSlash(raw)
                  \/ p.comps = <<>>
                  \/ p.comps \in d.dirs
                  \/ Front(p.comps) \notin d.dirs
        held == IF IsFile(d, p.comps) THEN d.files[p.comps] ELSE <<>>
    IN  (IF cannot THEN {} ELSE {[ok |-> TRUE, disk |-> PutFile(d, p.comps, held)]})
        \cup {[ok |-> FALSE, disk |-> d]}

\* File::create(raw): creates the file or truncates it.  It fails on a path
\* that ends in a slash, on a directory, under a missing directory, or when
\* the open is refused.
FileCreateOutcomes(d, raw) ==
    LET p == PathNew(raw)
        cannot == \/ TrailingSlash(raw)
                  \/ p.comps = <<>>
                  \/ p.comps \in d.dirs
                  \/ Front(p.comps) \notin d.dirs
    IN  (IF cannot THEN {} ELSE {[ok |-> TRUE, disk |-> PutFile(d, p.comps, <<>>)]})
        \cup {[ok |-> FALSE, disk |-> d]}

\* What a file holds after n bytes of `bytes` were written at its start.
Overwritten(old, bytes, n) ==
    SubSeq(bytes, 1, n) \o SubSeq(old, n + 1, Len(old))

\* Write::write_all(bytes) on the file File::create returned, which writes from
\* the start of the file: all the bytes, or an error after some of them.
\* Writing no bytes cannot fail.
WriteAllOutcomes(d, raw, bytes) ==
    LET c == PathNew(raw).comps
        old == IF IsFile(d, c) THEN d.files[c] ELSE <<>>
    IN  {[ok |-> TRUE, disk |-> PutFile(d, c, Overwritten(old, bytes, Len(bytes)))]}
        \cup {[ok |-> FALSE, disk |-> PutFile(d, c, Overwritten(old, bytes, k))] :
                k \in 0..(Len(bytes) - 1)}

(***************************************************************************)
(* The environment and what the network may answer.                        *)
(***************************************************************************)
\* The process environment: HOME, XDG_DATA_HOME and FONTY_BASE_PATH, each a
\* text or NoText when not set.
Envs ==
    { [HOME |-> <<"/", "h">>, XDG_DATA_HOME |-> NoText, FONTY_BASE_PATH |-> NoText],
      [HOME |-> <<"/", "h">>, XDG_DATA_HOME |-> NoText, FONTY_BASE_PATH |-> <<>>] }

UnwrapOr(opt, default) == IF opt = NoText THEN default ELSE opt

\* get_font_base_path, font_manifest.rs:15
get_font_base_path(e) ==
    LET home_dir == UnwrapOr(e.HOME, <<"~">>)
        xdg_data_home == UnwrapOr(e.XDG_DATA_HOME,
                                  home_dir \o <<"/", ".local", "/", "share">>)
    IN  IF e.FONTY_BASE_PATH # NoText THEN e.FONTY_BASE_PATH
        ELSE xdg_data_home \o <<"/", "fonts", "/", "Google">>

\* The font names a user may give.
Names == { <<"A", " ", "B">>, <<"C">> }

SeqsUpTo(S, n) == UNION {[1..k -> S] : k \in 0..n}

\* The entries the catalog may list.
FileChoices ==
    { [filename |-> <<"a">>, contents |-> <<"x">>],
      [filename |-> <<"a">>, contents |-> <<"y", "x">>],
      [filename |-> <<>>, contents |-> <<"x">>] }
RefChoices ==
    { [filename |-> <<"a">>, url |-> <<"u">>],
      [filename |-> <<"b", "/", "c">>, url |-> <<"v">>] }

Manifests ==
    { [files |-> f, file_refs |-> r] :
        f \in SeqsUpTo(FileChoices, MaxFiles), r \in SeqsUpTo(RefChoices, MaxRefs) }

OneFile == [files |-> << [filename |-> <<"a">>, contents |-> <<"x">>] >>,
            file_refs |-> <<>>]

\* Bodies that are not a prefix followed by a manifest.
OddBodies ==
    { <<>>,
      HijackPrefix \o HijackPrefix \o JsonOf(OneFile),
      JsonOf(OneFile) \o HijackPrefix,
      <<WOPEN, FNAME, "a", FCONT, "x">> \o HijackPrefix
          \o <<"y", QEND, "}", WREFS, "]", "}", "}">>,
      HijackPrefix \o <<WOPEN, FNAME, "a", FCONT, "x", QEND, "}", WREFS, "]", "}">> }

\* The bodies the download-list endpoint may send.
ListBodies ==
    {HijackPrefix \o JsonOf(m) : m \in Manifests}
    \cup {JsonOf(m) : m \in Manifests}
    \cup OddBodies

\* The bytes a file url may serve.
FileBytes == { <<"p", "q">> }

\* An HTTP exchange: the transport fails, or a status arrives and the body can
\* (a text) or cannot (NoText) be read.
TransportError == [transport |-> "error"]
Responses(bodies) ==
    {TransportError}
    \cup {[transport |-> "ok", status |-> s, body |-> b] :
            s \in {200, 404}, b \in bodies \cup {NoText}}

\* An exchange of which only the status is looked at.
StatusResponses ==
    {TransportError} \cup {[transport |-> "ok", status |-> s] : s \in {200, 404}}

\* StatusCode::is_success
is_success(status) == status >= 200 /\ status < 300

(***************************************************************************)
(* The state of one run of `fonty fetch <font1> [font2] ...`.              *)
(***************************************************************************)
VARIABLES
    args,           \* the font names given after "fetch"
    env,            \* the process environment
    pc,             \* where main is: "validate", "fetch", "derive", "write",
                    \* "download", "done"
    i,              \* the names checked so far; then the entry a loop is at
    st,             \* how far the entry at i has come
    invalid_fonts,  \* main.rs:46
    net,            \* every request issued so far, with what came back (of
                    \* the download list, only whether anything did)
    body,           \* fetch: the response text
    json,           \* fetch: the text handed to serde_json
    fetched,        \* the manifest FontManifest::fetch returned
    manifest,       \* main.rs:74, the manifest that is written out
    file_bytes,     \* fetch_files_from_refs: the bytes of the current download
    disk,           \* the file system
    exit            \* None while running; the exit code and message after
                    \* std::process::exit or a panic

vars == <<args, env, pc, i, st, invalid_fonts, net, body, json, fetched,
          manifest, file_bytes, disk, exit>>

NoManifest == [files |-> <<>>, file_refs |-> <<>>]

Init ==
    /\ args \in SeqsUpTo(Names, MaxArgs)
    /\ env \in Envs
    /\ pc = "validate"
    /\ i = 0
    /\ st = "Pending"
    /\ invalid_fonts = <<>>
    /\ net = <<>>
    /\ body = <<>>
    /\ json = <<>>
    /\ fetched = NoManifest
    /\ manifest = NoManifest
    /\ file_bytes = <<>>
    /\ disk = EmptyDisk
    /\ exit = None

Running == exit = None

\* std::process::exit(code) after printing msg.
Exit(code, msg) == exit' = [code |-> code, msg |-> msg]

(***************************************************************************)
(* main: validation                                                        *)
(***************************************************************************)
\* main.rs:41
NoFonts ==
    /\ Running /\ pc = "validate" /\ args = <<>>
    /\ Exit("EXIT_CODE_INVALID_FONT_NAME", "No fonts specified!")
    /\ UNCHANGED <<args, env, pc, i, st, invalid_fonts, net, body, json, fetched,
                   manifest, file_bytes, disk>>

\* Mutant: any answer at all makes the font valid.
check_if_valid_font_AnyAnswer(r) == r.transport = "ok"

\* FontManifest::check_if_valid_font, font_manifest.rs:103, on the answer r
\* to its request.
check_if_valid_font(r) == r.transport = "ok" /\ is_success(r.status)

SpecimenRequest(font_name) ==
    [kind |-> "specimen", target |-> StrReplace(font_name, <<" ">>, <<"+">>)]

\* main.rs:46, one turn of the filter: the catalog check of the next name.
CheckFont ==
    /\ Running /\ pc = "validate" /\ i < Len(args)
    /\ \E r \in StatusResponses :
         /\ net' = Append(net, [req |-> SpecimenRequest(args[i + 1]), resp |-> r])
         /\ invalid_fonts' = IF ~check_if_valid_font(r)
                             THEN Append(invalid_fonts, args[i + 1])
                             ELSE invalid_fonts
    /\ i' = i + 1
    /\ UNCHANGED <<args, env, pc, st, body, json, fetched, manifest, file_bytes,
                   disk, exit>>

\* Mutant: the run is stopped only when every name is invalid.
ReportInvalid_OnlyIfAllInvalid ==
    /\ Running /\ pc = "validate" /\ args # <<>> /\ i = Len(args)
    /\ IF Len(invalid_fonts) = Len(args)
       THEN /\ Exit("EXIT_CODE_INVALID_FONT_NAME", "The following fonts are invalid")
            /\ pc' = pc
       ELSE /\ pc' = "fetch"
            /\ exit' = exit
    /\ UNCHANGED <<args, env, i, st, invalid_fonts, net, body, json, fetched,
                   manifest, file_bytes, disk>>

\* main.rs:51, after the last check.
ReportInvalid ==
    /\ Running /\ pc = "validate" /\ args # <<>> /\ i = Len(args)
    /\ IF invalid_fonts # <<>>
       THEN /\ Exit("EXIT_CODE_INVALID_FONT_NAME", "The following fonts are invalid")
            /\ pc' = pc
       ELSE /\ pc' = "fetch"
            /\ exit' = exit
    /\ UNCHANGED <<args, env, i, st, invalid_fonts, net, body, json, fetched,
                   manifest, file_bytes, disk>>

(***************************************************************************)
(* FontManifest::fetch and the choice of the manifest to write             *)
(***************************************************************************)
ListRequest(font_names) == [kind |-> "list", target |-> Join(font_names, <<",">>)]

\* The text handed to the parser, font_manifest.rs:66.
StripPrefix(text) == StrReplace(text, HijackPrefix, <<>>)

\* FontManifest::fetch, font_manifest.rs:57, with main's unwrap of its result.
\* The status of the response is not looked at.
Fetch ==
    /\ Running /\ pc = "fetch"
    /\ \E r \in Responses(ListBodies) :
         /\ net' = Append(net, [req |-> ListRequest(args),
                                resp |-> [transport |-> r.transport]])
         /\ IF r.transport # "ok" \/ r.body = NoText
            THEN /\ Exit("panic", "called Result::unwrap() on an Err value")
                 /\ UNCHANGED <<pc, body, json, fetched>>
            ELSE /\ body' = r.body
                 /\ json' = StripPrefix(r.body)
                 /\ LET parsed == ParseJson(StripPrefix(r.body))
                    IN  IF parsed.ok
                        THEN /\ fetched' = parsed.manifest
                             /\ pc' = "derive"
                             /\ exit' = exit
                        ELSE /\ Exit("EXIT_CODE_INVALID_FONT_MANIFEST",
                                     "Invalid FontManifest!")
                             /\ UNCHANGED <<pc, fetched>>
    /\ UNCHANGED <<args, env, i, st, invalid_fonts, manifest, file_bytes, disk>>

\* Mutant: the references keep their file names.
prepand_path_to_files_FilesOnly(self, path) ==
    [files |-> [k \in 1..Len(self.files) |->
                  [filename |-> path \o <<"/">> \o self.files[k].filename,
                   contents |-> self.files[k].contents]],
     file_refs |-> self.file_refs]

\* FontManifest::prepand_path_to_files, font_manifest.rs:81
prepand_path_to_files(self, path) ==
    [files |-> [k \in 1..Len(self.files) |->
                  [filename |-> path \o <<"/">> \o self.files[k].filename,
                   contents |-> self.files[k].contents]],
     file_refs |-> [k \in 1..Len(self.file_refs) |->
                  [filename |-> path \o <<"/">> \o self.file_refs[k].filename,
                   url |-> self.file_refs[k].url]]]

\* Mutant: the font's name is used as it is, spaces and all.
DerivedManifest_SpacesKept(font_manifest, a) ==
    IF Len(a) = 1
    THEN [files |-> [k \in 1..Len(font_manifest.files) |->
                       [filename |-> a[1] \o <<"/">> \o font_manifest.files[k].filename,
                        contents |-> font_manifest.files[k].contents]],
          file_refs |-> [k \in 1..Len(font_manifest.file_refs) |->
                       [filename |-> a[1] \o <<"/">> \o font_manifest.file_refs[k].filename,
                        url |-> font_manifest.file_refs[k].url]]]
    ELSE font_manifest

\* main.rs:79, the manifest main goes on with.
DerivedManifest(font_manifest, a) ==
    IF Len(a) = 1
    THEN prepand_path_to_files(font_manifest, StrReplace(a[1], <<" ">>, <<"_">>))
    ELSE font_manifest

\* main.rs:74-84; the response text of fetch is gone by now.
Derive ==
    /\ Running /\ pc = "derive"
    /\ manifest' = DerivedManifest(fetched, args)
    /\ pc' = "write"
    /\ i' = 1
    /\ st' = "Pending"
    /\ body' = <<>>
    /\ json' = <<>>
    /\ UNCHANGED <<args, env, invalid_fonts, net, fetched, file_bytes, disk, exit>>

(***************************************************************************)
(* The steps write_files and fetch_files_from_refs share: the same code    *)
(* stands in both, font_manifest.rs:115-154 and 195-234.                   *)
(***************************************************************************)
\* format!("{}/{}", get_font_base_path(), filename)
RawFilepath(filename) == get_font_base_path(env) \o <<"/">> \o filename

\* Mutant: an entry whose directory cannot be made is skipped.
CreateDirStep_SkipOnError(filename) ==
    \E o \in CreateDirAllOutcomes(disk, PathParent(PathNew(RawFilepath(filename)))) :
       /\ disk' = o.disk
       /\ exit' = exit
       /\ st' = IF o.ok THEN "DirEnsured" ELSE "Done"

\* create_dir_all(parent_dir) and its error arm.
CreateDirStep(filename) ==
    \E o \in CreateDirAllOutcomes(disk, PathParent(PathNew(RawFilepath(filename)))) :
       /\ disk' = o.disk
       /\ IF o.ok
          THEN st' = "DirEnsured" /\ exit' = exit
          ELSE st' = st /\ Exit("EXIT_CODE_INVALID_FONT_MANIFEST",
                                "Failed to create directory")

\* File::create(filepath) and its error arm.
FileCreateStep(filename) ==
    \E o \in FileCreateOutcomes(disk, RawFilepath(filename)) :
       /\ disk' = o.disk
       /\ IF o.ok
          THEN st' = "FileCreated" /\ exit' = exit
          ELSE st' = st /\ Exit("EXIT_CODE_FILE_IO_ERROR", "Failed to create file")

\* file_writer.write_all(bytes) and its error arm.
WriteAllStep(filename, bytes) ==
    \E o \in WriteAllOutcomes(disk, RawFilepath(filename), bytes) :
       /\ disk' = o.disk
       /\ IF o.ok
          THEN st' = "Written" /\ exit' = exit
          ELSE st' = st /\ Exit("EXIT_CODE_FILE_IO_ERROR", "Failed to write to file")

(***************************************************************************)
(* FontManifest::write_files, font_manifest.rs:113                         *)
(***************************************************************************)
InWriteFiles == Running /\ pc = "write" /\ i <= Len(manifest.files)

\* font_manifest.rs:115-124
WriteFilesResolve ==
    /\ InWriteFiles /\ st = "Pending"
    /\ IF PathParent(PathNew(RawFilepath(manifest.files[i].filename))) = None
       THEN st' = st /\ Exit("EXIT_CODE_INVALID_FONT_MANIFEST", "Invalid file path")
       ELSE st' = "PathResolved" /\ exit' = exit
    /\ UNCHANGED <<args, env, pc, i, invalid_fonts, net, body, json, fetched,
                   manifest, file_bytes, disk>>

\* font_manifest.rs:126-136
WriteFilesCreateDir ==
    /\ InWriteFiles /\ st = "PathResolved"
    /\ CreateDirStep(manifest.files[i].filename)
    /\ UNCHANGED <<args, env, pc, i, invalid_fonts, net, body, json, fetched,
                   manifest, file_bytes>>

\* font_manifest.rs:138-145
WriteFilesCreate ==
    /\ InWriteFiles /\ st = "DirEnsured"
    /\ FileCreateStep(manifest.files[i].filename)
    /\ UNCHANGED <<args, env, pc, i, invalid_fonts, net, body, json, fetched,
                   manifest, file_bytes>>

\* font_manifest.rs:147-154
WriteFilesWrite ==
    /\ InWriteFiles /\ st = "FileCreated"
    /\ WriteAllStep(manifest.files[i].filename, manifest.files[i].contents)
    /\ UNCHANGED <<args, env, pc, i, invalid_fonts, net, body, json, fetched,
                   manifest, file_bytes>>

\* font_manifest.rs:155, the end of the loop body: the writer is dropped.
WriteFilesEnd ==
    /\ InWriteFiles /\ st = "Written"
    /\ st' = "Done"
    /\ UNCHANGED <<args, env, pc, i, invalid_fonts, net, body, json, fetched,
                   manifest, file_bytes, disk, exit>>

\* font_manifest.rs:114, the iterator moves on.
WriteFilesNext ==
    /\ InWriteFiles /\ st = "Done"
    /\ i' = i + 1
    /\ st' = "Pending"
    /\ UNCHANGED <<args, env, pc, invalid_fonts, net, body, json, fetched,
                   manifest, file_bytes, disk, exit>>

\* font_manifest.rs:156 and main.rs:91: no file is left, main goes on to the
\* references.
WriteFilesReturn ==
    /\ Running /\ pc = "write" /\ i = Len(manifest.files) + 1
    /\ pc' = "download"
    /\ i' = 1
    /\ UNCHANGED <<args, env, st, invalid_fonts, net, body, json, fetched,
                   manifest, file_bytes, disk, exit>>

(***************************************************************************)
(* FontManifest::fetch_files_from_refs, font_manifest.rs:159               *)
(***************************************************************************)
InFetchRefs == Running /\ pc = "download" /\ i <= Len(manifest.file_refs)

FileRequest(url) == [kind |-> "file", target |-> url]

\* Mutant: the status of the answer is not looked at.
GetOutcome_StatusIgnored(r) ==
    IF r.transport # "ok" THEN "request failed"
    ELSE IF r.body = NoText THEN "body unread"
    ELSE "bytes"

\* font_manifest.rs:169-193: what becomes of the answer r to the request.
GetOutcome(r) ==
    IF r.transport # "ok" THEN "request failed"
    ELSE IF ~is_success(r.status) THEN "bad status"
    ELSE IF r.body = NoText THEN "body unread"
    ELSE "bytes"

\* Mutant: the file is created before the request is sent.
FetchRefsGet_FileFirst ==
    /\ InFetchRefs /\ st = "Pending"
    /\ \E r \in Responses(FileBytes) :
         /\ net' = Append(net, [req |-> FileRequest(manifest.file_refs[i].url),
                                resp |-> r])
         /\ disk' = IF Front(PathNew(RawFilepath(manifest.file_refs[i].filename)).comps)
                         \in disk.dirs
                    THEN PutFile(disk,
                                 PathNew(RawFilepath(manifest.file_refs[i].filename)).comps,
                                 <<>>)
                    ELSE disk
         /\ IF GetOutcome(r) # "bytes"
            THEN /\ Exit("EXIT_CODE_NET_ERROR", "Failed to fetch file")
                 /\ UNCHANGED <<st, file_bytes>>
            ELSE /\ file_bytes' = r.body
                 /\ st' = "PathResolved" /\ exit' = exit
    /\ UNCHANGED <<args, env, pc, i, invalid_fonts, body, json, fetched, manifest>>

\* font_manifest.rs:169-204: the request, the status, the body, and the path
\* to write it to.
FetchRefsGet ==
    /\ InFetchRefs /\ st = "Pending"
    /\ \E r \in Responses(FileBytes) :
         /\ net' = Append(net, [req |-> FileRequest(manifest.file_refs[i].url),
                                resp |-> r])
         /\ IF GetOutcome(r) # "bytes"
            THEN /\ Exit("EXIT_CODE_NET_ERROR",
                         IF GetOutcome(r) = "bad status"
                         THEN "Failed to fetch file: Got status"
                         ELSE "Failed to fetch file: Error")
                 /\ UNCHANGED <<st, file_bytes>>
            ELSE /\ file_bytes' = r.body
                 /\ IF PathParent(PathNew(RawFilepath(manifest.file_refs[i].filename)))
                          = None
                    THEN st' = st /\ Exit("EXIT_CODE_INVALID_FONT_MANIFEST",
                                          "Invalid file path")
                    ELSE st' = "PathResolved" /\ exit' = exit
    /\ UNCHANGED <<args, env, pc, i, invalid_fonts, body, json, fetched, manifest,
                   disk>>

\* font_manifest.rs:206-216
FetchRefsCreateDir ==
    /\ InFetchRefs /\ st = "PathResolved"
    /\ CreateDirStep(manifest.file_refs[i].filename)
    /\ UNCHANGED <<args, env, pc, i, invalid_fonts, net, body, json, fetched,
                   manifest, file_bytes>>

\* font_manifest.rs:218-225
FetchRefsCreate ==
    /\ InFetchRefs /\ st = "DirEnsured"
    /\ FileCreateStep(manifest.file_refs[i].filename)
    /\ UNCHANGED <<args, env, pc, i, invalid_fonts, net, body, json, fetched,
                   manifest, file_bytes>>

\* font_manifest.rs:227-234
FetchRefsWrite ==
    /\ InFetchRefs /\ st = "FileCreated"
    /\ WriteAllStep(manifest.file_refs[i].filename, file_bytes)
    /\ UNCHANGED <<args, env, pc, i, invalid_fonts, net, body, json, fetched,
                   manifest, file_bytes>>

\* font_manifest.rs:235-236: "DONE!" is printed, the loop body ends.
FetchRefsEnd ==
    /\ InFetchRefs /\ st = "Written"
    /\ st' = "Done"
    /\ file_bytes' = <<>>
    /\ UNCHANGED <<args, env, pc, i, invalid_fonts, net, body, json, fetched,
                   manifest, disk, exit>>

\* font_manifest.rs:161, the iterator moves on.
FetchRefsNext ==
    /\ InFetchRefs /\ st = "Done"
    /\ i' = i + 1
    /\ st' = "Pending"
    /\ UNCHANGED <<args, env, pc, invalid_fonts, net, body, json, fetched,
                   manifest, file_bytes, disk, exit>>

\* font_manifest.rs:237 and main.rs:94: no reference is left, main ends.
FetchRefsReturn ==
    /\ Running /\ pc = "download" /\ i = Len(manifest.file_refs) + 1
    /\ pc' = "done"
    /\ UNCHANGED <<args, env, i, st, invalid_fonts, net, body, json, fetched,
                   manifest, file_bytes, disk, exit>>

Next ==
    \/ NoFonts
    \/ CheckFont
    \/ ReportInvalid
    \/ Fetch
    \/ Derive
    \/ WriteFilesResolve
    \/ WriteFilesCreateDir
    \/ WriteFilesCreate
    \/ WriteFilesWrite
    \/ WriteFilesEnd
    \/ WriteFilesNext
    \/ WriteFilesReturn
    \/ FetchRefsGet
    \/ FetchRefsCreateDir
    \/ FetchRefsCreate
    \/ FetchRefsWrite
    \/ FetchRefsEnd
    \/ FetchRefsNext
    \/ FetchRefsReturn

Spec == Init /\ [][Next]_vars

(***************************************************************************)
(* What the claims speak of.                                               *)
(***************************************************************************)
\* The requests of one kind, in the order they were issued.
Log(kind) == SelectSeq(net, LAMBDA e : e.req.kind = kind)

\* The positions of the requests of one kind in net.
Positions(kind) == {k \in 1..Len(net) : net[k].req.kind = kind}

ToSet(q) == {q[k] : k \in 1..Len(q)}

\* A catalog check that succeeded: something came back, with a 2xx status.
CheckSucceeded(r) == r.transport = "ok" /\ r.status \in 200..299

\* The place on the disk a file name stands for.
Dest(filename) == PathNew(RawFilepath(filename)).comps

Failure(code) == exit # None /\ exit.code = code

\* C1: every requested name gets one catalog check, in order and whatever the
\* earlier checks said, and the names reported invalid are exactly the names
\* whose check did not succeed, a check that got no answer included.
C1_ValidationReportsEveryInvalidName ==
    LET checks == Log("specimen")
    IN  /\ Len(checks) = IF pc = "validate" THEN i ELSE Len(args)
        /\ (pc = "validate" /\ exit # None /\ args # <<>>) => i = Len(args)
        /\ \A k \in 1..Len(checks) :
             checks[k].req.target =
                [n \in 1..Len(args[k]) |->
                    IF args[k][n] = " " THEN "+" ELSE args[k][n]]
        /\ ToSet(invalid_fonts) =
             {args[k] : k \in {n \in 1..Len(checks) : ~CheckSucceeded(checks[n].resp)}}

\* Two names were given, both were checked and both are reported, one of them
\* because its check got no answer.
C1_Witness ==
    /\ Failure("EXIT_CODE_INVALID_FONT_NAME")
    /\ Len(args) = 2 /\ args[1] # args[2]
    /\ Len(invalid_fonts) = 2
    /\ Log("specimen")[1].resp = TransportError
    /\ Log("specimen")[2].resp # TransportError

C2_Gate ==
    /\ Positions("list") # {} =>
         /\ invalid_fonts = <<>>
         /\ Len(Log("specimen")) = Len(args)
         /\ \A c \in Positions("specimen"), l \in Positions("list") : c < l
    /\ invalid_fonts # <<>> =>
         /\ pc = "validate"
         /\ Positions("list") = {} /\ Positions("file") = {}
         /\ disk = EmptyDisk
    /\ Failure("EXIT_CODE_INVALID_FONT_NAME") =>
         /\ Positions("list") = {} /\ Positions("file") = {}
         /\ disk = EmptyDisk

C2_Ends ==
    (args # <<>> /\ i = Len(args) /\ invalid_fonts # <<>>)
        => Failure("EXIT_CODE_INVALID_FONT_NAME")'

\* C2: the manifest request is issued only after the catalog check of every
\* requested name, and with a name invalid the run ends with
\* EXIT_CODE_INVALID_FONT_NAME: no manifest request, no file written, nothing
\* downloaded.
C2_ValidationGatesTheRun == [](C2_Gate) /\ [][C2_Ends]_vars

\* A run that ended on an invalid first name after checking the second, valid
\* one as well.
C2_Witness ==
    /\ Failure("EXIT_CODE_INVALID_FONT_NAME")
    /\ Len(args) = 2
    /\ invalid_fonts = <<args[1]>>
    /\ Len(Log("specimen")) = 2
    /\ CheckSucceeded(Log("specimen")[2].resp)

\* The body without its leading anti-hijacking prefix, if it begins with it.
WithoutLeadingPrefix(b) ==
    IF StartsWithAt(b, 1, HijackPrefix)
    THEN SubSeq(b, Len(HijackPrefix) + 1, Len(b))
    ELSE b

\* fetch has read a response body.
BodyRead == pc = "derive" \/ (pc = "fetch" /\ exit # None /\ exit.code # "panic")

\* C3: the text handed to the JSON parser is the body without its leading
\* prefix, or the body itself when it does not begin with the prefix, and a
\* body that does not parse after the removal of the leading prefix alone ends
\* the run with EXIT_CODE_INVALID_FONT_MANIFEST.
C3_OnlyLeadingPrefixRemoved ==
    BodyRead =>
        /\ json = WithoutLeadingPrefix(body)
        /\ ~ParseJson(WithoutLeadingPrefix(body)).ok
              => Failure("EXIT_CODE_INVALID_FONT_MANIFEST")

\* The part of C3 that holds of the code: a body that is the prefix and then a
\* manifest's JSON parses to what that JSON parses to.
C3_PrefixedPayloadParsesAlike ==
    (BodyRead /\ StartsWithAt(body, 1, HijackPrefix)
        /\ ParseJson(WithoutLeadingPrefix(body)).ok)
    => (pc = "derive" /\ fetched = ParseJson(WithoutLeadingPrefix(body)).manifest)

\* Prefixes to try prepand_path_to_files with.
PrefixSamples ==
    { <<>>, <<"C">>, <<"A", "_", "B">>, <<"A", " ", "B">>, <<"C", "/">>, <<"/">> }

\* r is m with p and a slash put before every file name, and nothing else
\* changed.
IsPrefixed(r, m, p) ==
    /\ DOMAIN r = {"files", "file_refs"}
    /\ Len(r.files) = Len(m.files)
    /\ Len(r.file_refs) = Len(m.file_refs)
    /\ \A k \in 1..Len(m.files) :
         /\ r.files[k].filename = p \o <<"/">> \o m.files[k].filename
         /\ r.files[k].contents = m.files[k].contents
    /\ \A k \in 1..Len(m.file_refs) :
         /\ r.file_refs[k].filename = p \o <<"/">> \o m.file_refs[k].filename
         /\ r.file_refs[k].url = m.file_refs[k].url

\* C4: prepand_path_to_files(m, p) has the entries of m in their order, each
\* file name with p and a slash before it, each contents and url as it was;
\* with two different prefixes the new names of one entry differ.
C4_WithPrefixRewritesEveryName ==
    /\ \A p \in PrefixSamples : IsPrefixed(prepand_path_to_files(fetched, p), fetched, p)
    /\ \A p, q \in PrefixSamples :
         p # q =>
            /\ \A k \in 1..Len(fetched.files) :
                 prepand_path_to_files(fetched, p).files[k].filename
                    # prepand_path_to_files(fetched, q).files[k].filename
            /\ \A k \in 1..Len(fetched.file_refs) :
                 prepand_path_to_files(fetched, p).file_refs[k].filename
                    # prepand_path_to_files(fetched, q).file_refs[k].filename
    /\ (pc \in {"write", "download", "done"} /\ manifest # fetched)
         => \E p \in PrefixSamples : IsPrefixed(manifest, fetched, p)

\* main has prefixed a fetched manifest of two files and two references.
C4_Witness ==
    /\ pc = "write"
    /\ Len(fetched.files) = 2 /\ Len(fetched.file_refs) = 2
    /\ fetched.file_refs[1] # fetched.file_refs[2]
    /\ manifest # fetched

\* The name with an underscore for every space.
Underscored(name) ==
    [n \in 1..Len(name) |-> IF name[n] = " " THEN "_" ELSE name[n]]

\* C5: with one font name the manifest written out is the fetched one with the
\* name, its spaces turned into underscores, before every file name; with two
\* or more it is the fetched manifest itself.
C5_PrefixOnlyForOneFont ==
    pc \in {"write", "download", "done"} =>
        /\ Len(args) = 1 => IsPrefixed(manifest, fetched, Underscored(args[1]))
        /\ Len(args) >= 2 => manifest = fetched

\* One font whose name has a space, and a manifest with files and references.
C5_Witness ==
    /\ pc = "download"
    /\ Len(args) = 1 /\ " " \in ToSet(args[1])
    /\ Len(manifest.files) >= 1 /\ Len(manifest.file_refs) >= 1
    /\ manifest.file_refs[1].filename = <<"A", "_", "B", "/", "b", "/", "c">>

\* A download that did not yield its bytes: no answer, a status outside
\* 200..299, or a body that could not be read.
DownloadFailed(r) ==
    \/ r.transport # "ok"
    \/ r.status \notin 200..299
    \/ r.body = NoText

\* C6: a download that fails (no answer, a status such as 404, an unreadable
\* body) ends the run with EXIT_CODE_NET_ERROR; it is the last request issued,
\* the requests before it are those of the references before it, in order, and
\* no file of a later reference is on the disk.
C6_FailedDownloadEndsTheRun ==
    LET gets == Log("file")
    IN  /\ \A k \in 1..Len(gets) :
             /\ k <= Len(manifest.file_refs)
             /\ gets[k].req.target = manifest.file_refs[k].url
             /\ DownloadFailed(gets[k].resp) =>
                  /\ k = Len(gets)
                  /\ net[Len(net)] = gets[k]
                  /\ Failure("EXIT_CODE_NET_ERROR")
                  /\ pc = "download" /\ i = k
                  /\ DOMAIN disk.files \subseteq
                       {Dest(manifest.files[n].filename) :
                            n \in 1..Len(manifest.files)}
                       \cup {Dest(manifest.file_refs[n].filename) : n \in 1..(k - 1)}
        /\ Failure("EXIT_CODE_NET_ERROR") =>
             Len(gets) > 0 /\ DownloadFailed(gets[Len(gets)].resp)

\* The first of two references to different places answered 404.
C6_Witness ==
    /\ Failure("EXIT_CODE_NET_ERROR")
    /\ i = 1 /\ Len(manifest.file_refs) = 2
    /\ Dest(manifest.file_refs[1].filename) # Dest(manifest.file_refs[2].filename)
    /\ Log("file")[1].resp.transport = "ok"
    /\ Log("file")[1].resp.status = 404
    /\ Log("file")[1].resp.body # NoText

\* The entries in the order they are processed, each with the place it goes to
\* and the bytes to write there: the files, then the references with what
\* their downloads brought.
Processed ==
    [k \in 1..Len(manifest.files) |->
        [dest |-> Dest(manifest.files[k].filename),
         bytes |-> manifest.files[k].contents]]
    \o [k \in 1..Len(Log("file")) |->
        [dest |-> Dest(manifest.file_refs[k].filename),
         bytes |-> Log("file")[k].resp.body]]

\* The last entry that goes to the place of entry k.
LastTo(k) ==
    CHOOSE n \in 1..Len(Processed) :
        /\ Processed[n].dest = Processed[k].dest
        /\ \A m \in (n + 1)..Len(Processed) : Processed[m].dest # Processed[k].dest

\* C7: after a run without failure the files on the disk are the places the
\* entries go to, and each holds the bytes of the last entry that goes there,
\* the files taken first and the references after them.
C7_LastWriteWins ==
    pc = "done" =>
        /\ Len(Processed) = Len(manifest.files) + Len(manifest.file_refs)
        /\ DOMAIN disk.files = {Processed[k].dest : k \in 1..Len(Processed)}
        /\ \A k \in 1..Len(Processed) :
             disk.files[Processed[k].dest] = Processed[LastTo(k)].bytes

\* Two files with different contents and a reference, all to one place.
C7_Witness ==
    /\ pc = "done"
    /\ Len(manifest.files) = 2 /\ Len(manifest.file_refs) >= 1
    /\ manifest.files[1].filename = manifest.files[2].filename
    /\ Len(manifest.files[1].contents) > Len(manifest.files[2].contents)
    /\ Dest(manifest.file_refs[1].filename) = Dest(manifest.files[1].filename)

\* The exit code of an unparsable manifest, font_manifest.rs:73.
InvalidManifestCode == "EXIT_CODE_INVALID_FONT_MANIFEST"

\* write_files has failed, at the step the message names.
WriteFilesFailedAt(msgs) == pc = "write" /\ exit # None /\ exit.msg \in msgs

\* C8: write_files fails with the kind of the step that failed: one kind for a
\* path without a parent, one for a directory that cannot be made, one for a
\* file that cannot be created or written, the three different from each other
\* and from the kind of an unparsable manifest.  The kind a run ends with is
\* its exit code.
C8_WriteFailureKindsDistinct ==
    /\ WriteFilesFailedAt({"Invalid file path"}) =>
          exit.code \notin {InvalidManifestCode, "EXIT_CODE_FILE_IO_ERROR"}
    /\ WriteFilesFailedAt({"Failed to create directory"}) =>
          exit.code \notin {InvalidManifestCode, "EXIT_CODE_FILE_IO_ERROR"}
    /\ WriteFilesFailedAt({"Failed to create file", "Failed to write to file"}) =>
          exit.code # InvalidManifestCode

\* What does hold of the code: the message names the step that failed, and the
\* exit code is that of an unparsable manifest for a path without a parent and
\* for a directory that cannot be made, EXIT_CODE_FILE_IO_ERROR for a file
\* that cannot be created or written.
C8_WriteFailureCodes ==
    (pc = "write" /\ exit # None) =>
        LET raw == RawFilepath(manifest.files[i].filename)
        IN  /\ exit.msg = "Invalid file path" <=> PathNew(raw).comps = <<>>
            /\ exit.msg = "Invalid file path" => st = "Pending"
            /\ exit.msg = "Failed to create directory" <=> st = "PathResolved"
            /\ exit.msg = "Failed to create file" <=> st = "DirEnsured"
            /\ exit.msg = "Failed to write to file" <=> st = "FileCreated"
            /\ exit.code = IF st \in {"Pending", "PathResolved"}
                           THEN InvalidManifestCode
                           ELSE "EXIT_CODE_FILE_IO_ERROR"

\* The steps of an entry, in their order.
StepOrder ==
    { <<"Pending", "PathResolved">>, <<"PathResolved", "DirEnsured">>,
      <<"DirEnsured", "FileCreated">>, <<"FileCreated", "Written">>,
      <<"Written", "Done">> }

InLoop == pc \in {"write", "download"}

\* The entry a loop is at, as the place it goes to and the bytes for it.
Current ==
    IF pc = "write"
    THEN [dest |-> Dest(manifest.files[i].filename),
          bytes |-> manifest.files[i].contents]
    ELSE [dest |-> Dest(manifest.file_refs[i].filename), bytes |-> file_bytes]

\* What each step of an entry has brought about.
C9_StepsMeanWhatTheySay ==
    (InLoop /\ i <= Len(IF pc = "write" THEN manifest.files ELSE manifest.file_refs))
    => /\ st \in {"PathResolved", "DirEnsured", "FileCreated", "Written", "Done"}
            => Current.dest # <<>>
       /\ (st \in {"DirEnsured", "FileCreated", "Written", "Done"})
            => Front(Current.dest) \in disk.dirs
       /\ (st = "FileCreated" /\ exit = None)
            => IsFile(disk, Current.dest) /\ disk.files[Current.dest] = <<>>
       /\ (st = "Written")
            => IsFile(disk, Current.dest) /\ disk.files[Current.dest] = Current.bytes

\* A failure in write_files: nothing was ever downloaded.
C9_NoDownloadAfterWriteFailure ==
    (pc = "write" /\ exit # None) => Positions("file") = {}

\* One step of a run: it starts from a run that has not failed; within an entry
\* it takes the entry to its next step; it leaves an entry only when the entry
\* is done, for the next one; a failure leaves the run where it failed.
C9_Step ==
    /\ exit = None /\ pc # "done"
    /\ (InLoop /\ pc' = pc /\ i' = i /\ exit' = None) => <<st, st'>> \in StepOrder
    /\ (InLoop /\ pc' = pc /\ i' # i) =>
          st = "Done" /\ st' = "Pending" /\ i' = i + 1 /\ exit' = None
    /\ (InLoop /\ pc' # pc) =>
          /\ st = "Pending" /\ exit' = None
          /\ i = Len(IF pc = "write" THEN manifest.files ELSE manifest.file_refs) + 1
    /\ (pc' \in {"write", "download"} /\ pc' # pc) => i' = 1 /\ st' = "Pending"
    /\ exit' # None => pc' = pc /\ i' = i /\ st' = st

\* C9: in write_files and in fetch_files_from_refs the entries are taken one
\* at a time, in the manifest's order, each through Pending, PathResolved,
\* DirEnsured, FileCreated, Written and Done; a failure at a step ends the run
\* there, no later step and no later entry follows, and after a failure over
\* the inline files no reference is downloaded.
C9_EntryStateMachine ==
    /\ [](C9_StepsMeanWhatTheySay /\ C9_NoDownloadAfterWriteFailure)
    /\ [][C9_Step]_vars

\* The first of two files could not be created; there are references.
C9_Witness ==
    /\ pc = "write" /\ exit # None
    /\ exit.msg = "Failed to create file"
    /\ i = 1 /\ Len(manifest.files) = 2 /\ Len(manifest.file_refs) >= 1
    /\ manifest.files[1].filename # <<>>

\* The request for a reference, whatever comes of it, leaves the disk as it is.
C10_GetLeavesDisk ==
    (pc = "download" /\ st = "Pending") => disk' = disk

\* C10: nothing on the disk is touched for a reference before its bytes have
\* arrived: a run that ends with EXIT_CODE_NET_ERROR ends at the request of
\* that reference, with the disk as it was when the reference was begun,
\* the place it was to go to and the files of the entries before it included.
C10_NetErrorLeavesDiskUntouched ==
    /\ [](Failure("EXIT_CODE_NET_ERROR") => (pc = "download" /\ st = "Pending"))
    /\ [][C10_GetLeavesDisk]_vars
    /\ [][(exit' # None /\ exit'.code = "EXIT_CODE_NET_ERROR") => disk' = disk]_vars

\* The download of a second reference failed; the place it was to go to holds
\* what an inline file put there, and the first reference is on the disk.
C10_Witness ==
    /\ Failure("EXIT_CODE_NET_ERROR")
    /\ i = 2
    /\ IsFile(disk, Dest(manifest.file_refs[2].filename))
    /\ \E k \in 1..Len(manifest.files) :
         /\ Dest(manifest.files[k].filename) = Dest(manifest.file_refs[2].filename)
         /\ disk.files[Dest(manifest.file_refs[2].filename)] = manifest.files[k].contents
    /\ IsFile(disk, Dest(manifest.file_refs[1].filename))
    /\ Dest(manifest.file_refs[1].filename) # Dest(manifest.file_refs[2].filename)

=============================================================================
